---- MODULE Spec2Model ----
(***************************************************************************)
(* Model of black_scholes_app.py: the three core functions black_scholes,  *)
(* calculate_greeks and calculate_pnl, and the top-to-bottom run of the    *)
(* Streamlit script that calls them.                                       *)
(*                                                                         *)
(* Numbers.  Python floats are modelled by a small binary floating-point   *)
(* format: a value is an integer counting units of 2^-FracBits, it is      *)
(* representable when its magnitude has at most FloatPrec significant      *)
(* bits, and every arithmetic result is rounded to the nearest             *)
(* representable value, ties to even (IEEE 754 round-to-nearest-even).     *)
(* Overflow to infinity is not modelled: the values used stay far from it. *)
(*                                                                         *)
(* Library transcendentals.  math.log, math.exp, math.sqrt, norm.cdf and   *)
(* norm.pdf are not computed.  What the model keeps of them is (a) where   *)
(* they raise, in Python's evaluation order, (b) for the numbers built     *)
(* from them, an uninterpreted term naming the formula and its arguments,  *)
(* and (c) for norm.cdf(d1) in calculate_greeks, whose value is combined   *)
(* with float subtraction, a parameter cdf_d1 ranging over the             *)
(* representable values of [0, 1].                                         *)
(***************************************************************************)
EXTENDS Integers, Sequences, FiniteSets, TLC

VARIABLES
    pc,             \* position of the script run: the line about to execute
    S, K, T, r, sigma,  \* the five widget values (lines 45-49)
    call_price,     \* module-level names of the script, Unbound until assigned
    put_price,
    greeks,
    premium_input,
    stock_prices,
    pnl_call,
    pnl_put,
    heatmap_data,
    exc,            \* the exception that ended the script run, "" if none
    call            \* the latest call of a core function: fn, args, ret

vars == <<pc, S, K, T, r, sigma, call_price, put_price, greeks, premium_input,
          stock_prices, pnl_call, pnl_put, heatmap_data, exc, call>>

----------------------------------------------------------------------------
(* Bounds of the model *)

\* significand bits of the float format
FloatPrec == 4

\* fractional bits: 1.0 is 2^FracBits units
FracBits == 6

\* longest price sequence handed to calculate_pnl by the call harness
MaxLen == 3

\* number of grid points of np.linspace at line 140
GridSize == 10

----------------------------------------------------------------------------
(* Float arithmetic *)

RECURSIVE Pow2(_)
Pow2(n) == IF n = 0 THEN 1 ELSE 2 * Pow2(n - 1)

One == Pow2(FracBits)

\* spacing of representable values around the magnitude x (x >= 0, in units)
RECURSIVE Ulp(_)
Ulp(x) == IF x < Pow2(FloatPrec) THEN 1 ELSE 2 * Ulp(x \div 2)

\* n/d (n >= 0, d > 0) rounded to the nearest representable magnitude, ties to even
RoundMagRat(n, d) ==
    LET u   == Ulp(n \div d)
        q   == n \div (d * u)
        rem == n - q * d * u
    IN  IF 2 * rem < d * u THEN q * u
        ELSE IF 2 * rem > d * u THEN (q + 1) * u
        ELSE IF q % 2 = 0 THEN q * u ELSE (q + 1) * u

FRoundRat(n, d) == IF n < 0 THEN 0 - RoundMagRat(0 - n, d) ELSE RoundMagRat(n, d)

Representable(x) == FRoundRat(x, 1) = x

FAdd(a, b) == FRoundRat(a + b, 1)
FSub(a, b) == FRoundRat(a - b, 1)
FMul(a, b) == FRoundRat(a * b, One)
FDiv(a, b) == IF b > 0 THEN FRoundRat(a * One, b) ELSE FRoundRat((0 - a) * One, 0 - b)
FMax(a, b) == IF a >= b THEN a ELSE b

----------------------------------------------------------------------------
(* Python outcomes *)

Return(v) == [kind |-> "return", exc |-> "", value |-> v]
Raise(e)  == [kind |-> "raise", exc |-> e, value |-> <<>>]

\* a number the model does not compute: the formula's name and its arguments
Term(name, s, k, t, rate, sig) == <<name, s, k, t, rate, sig>>

Unbound == <<>>
Bound(v) == <<v>>
ValueOf(name) == name[1]

----------------------------------------------------------------------------
(* black_scholes, lines 8-17 *)

\* Line 9, in Python's evaluation order: S / K, math.log of it, the rest of the
\* numerator (which cannot raise), math.sqrt(T), then the division by
\* sigma * math.sqrt(T).  "" when the line completes.
Line9Raises(s, k, t, rate, sig) ==
    IF k = 0 THEN "ZeroDivisionError"                 \* S / K
    ELSE IF FDiv(s, k) <= 0 THEN "ValueError"         \* math.log(x), x <= 0
    ELSE IF t < 0 THEN "ValueError"                   \* math.sqrt(T), T < 0
    ELSE IF sig = 0 \/ t = 0 THEN "ZeroDivisionError" \* / (sigma * sqrt(T)) = 0
    ELSE ""

black_scholes(s, k, t, rate, sig, option_type) ==
    LET e  == Line9Raises(s, k, t, rate, sig)
        d1 == Term("d1", s, k, t, rate, sig)
        d2 == Term("d2", s, k, t, rate, sig)
    IN  IF e # "" THEN Raise(e)
        ELSE IF option_type = "call"
             THEN Return([option_price |-> Term("call_price", s, k, t, rate, sig),
                          d1 |-> d1, d2 |-> d2])
        ELSE IF option_type = "put"
             THEN Return([option_price |-> Term("put_price", s, k, t, rate, sig),
                          d1 |-> d1, d2 |-> d2])
        \* neither branch assigned option_price: line 17 reads an unbound local
        ELSE Raise("UnboundLocalError")

----------------------------------------------------------------------------
(* calculate_greeks, lines 20-29.  cdf_d1 is the value of norm.cdf(d1). *)

\* delta_put written as 1 - norm.cdf(d1)
calculate_greeks_flipped(s, k, t, rate, sig, cdf_d1) ==
    LET bs == black_scholes(s, k, t, rate, sig, "call")
    IN  IF bs.kind = "raise" THEN bs
        ELSE Return([delta_call |-> cdf_d1,
                     delta_put  |-> FSub(One, cdf_d1),
                     gamma      |-> Term("gamma", s, k, t, rate, sig),
                     theta_call |-> Term("theta_call", s, k, t, rate, sig),
                     theta_put  |-> Term("theta_put", s, k, t, rate, sig),
                     vega       |-> Term("vega", s, k, t, rate, sig)])

calculate_greeks(s, k, t, rate, sig, cdf_d1) ==
    LET bs == black_scholes(s, k, t, rate, sig, "call")
    IN  IF bs.kind = "raise" THEN bs
        ELSE Return([delta_call |-> cdf_d1,
                     delta_put  |-> FSub(cdf_d1, One),
                     gamma      |-> Term("gamma", s, k, t, rate, sig),
                     theta_call |-> Term("theta_call", s, k, t, rate, sig),
                     theta_put  |-> Term("theta_put", s, k, t, rate, sig),
                     vega       |-> Term("vega", s, k, t, rate, sig)])

----------------------------------------------------------------------------
(* calculate_pnl, lines 32-35, with numpy's elementwise broadcasting *)

ArraySubScalar(a, x) == [i \in 1..Len(a) |-> FSub(a[i], x)]
ScalarSubArray(x, a) == [i \in 1..Len(a) |-> FSub(x, a[i])]
Maximum(x, a) == [i \in 1..Len(a) |-> FMax(x, a[i])]

\* The result, and the contents of the caller's stock_prices array after the
\* call: binary "-" allocates a new array, so lines 33-34 do not write to it.
PnlResult(pc_, pp_, prices_after) ==
    [kind |-> "return", exc |-> "", value |-> [pnl_call |-> pc_, pnl_put |-> pp_],
     stock_prices |-> prices_after]

\* premium subtracted inside np.maximum: np.maximum(0, s - K - premium)
calculate_pnl_premium_inside(prices, strike_price, premium) ==
    PnlResult(Maximum(0, ArraySubScalar(ArraySubScalar(prices, strike_price), premium)),
              Maximum(0, ArraySubScalar(ScalarSubArray(strike_price, prices), premium)),
              prices)

\* line 34 pasted from line 33 without swapping the operands
calculate_pnl_pasted(prices, strike_price, premium) ==
    PnlResult(ArraySubScalar(Maximum(0, ArraySubScalar(prices, strike_price)), premium),
              ArraySubScalar(Maximum(0, ArraySubScalar(prices, strike_price)), premium),
              prices)

\* line 35 returning the two legs in the other order
calculate_pnl_swapped(prices, strike_price, premium) ==
    PnlResult(ArraySubScalar(Maximum(0, ScalarSubArray(strike_price, prices)), premium),
              ArraySubScalar(Maximum(0, ArraySubScalar(prices, strike_price)), premium),
              prices)

\* line 33 written in place: stock_prices -= strike_price
calculate_pnl_in_place(prices, strike_price, premium) ==
    LET shifted == ArraySubScalar(prices, strike_price)
    IN  PnlResult(ArraySubScalar(Maximum(0, shifted), premium),
                  ArraySubScalar(Maximum(0, ScalarSubArray(strike_price, shifted)), premium),
                  shifted)

calculate_pnl(prices, strike_price, premium) ==
    PnlResult(ArraySubScalar(Maximum(0, ArraySubScalar(prices, strike_price)), premium),
              ArraySubScalar(Maximum(0, ScalarSubArray(strike_price, prices)), premium),
              prices)

----------------------------------------------------------------------------
(* Values the callers supply *)

\* representable values of [0, 1]: the range of norm.cdf
CdfValues == {x \in 0..One : Representable(x)}

SpotSet == {0 - One, 0, One, 2 * One}
NumSet == {0 - One, 0, One}
OptionTypes == {"call", "put", "Call", "straddle"}

PnlValues == {x \in {0 - One, 0, 1, One \div 2, One, One + One \div 2, 2 * One} :
                 Representable(x)}
StrikeValues == {One \div 2, One, 2 * One}
PremiumValues == {0 - One \div 2, 0, 1, One}

RECURSIVE SeqsUpTo(_, _)
SeqsUpTo(V, n) ==
    IF n = 0 THEN {<<>>}
    ELSE LET shorter == SeqsUpTo(V, n - 1)
         IN  shorter \cup {Append(q, v) : q \in {x \in shorter : Len(x) = n - 1}, v \in V}

NoCall == [fn |-> "none", args |-> <<>>, ret |-> <<>>]

----------------------------------------------------------------------------
(* The core functions called directly, one call after another, in any      *)
(* order, with any arguments.  A caller makes a call, reads call.ret, and  *)
(* drops the result before its next call.                                  *)

scriptVars == <<pc, S, K, T, r, sigma, call_price, put_price, greeks, premium_input,
                stock_prices, pnl_call, pnl_put, heatmap_data, exc>>

CoreInit ==
    /\ pc = "harness"
    /\ S = One /\ K = One /\ T = One /\ r = 0 /\ sigma = One
    /\ call_price = Unbound /\ put_price = Unbound /\ greeks = Unbound
    /\ premium_input = Unbound /\ stock_prices = Unbound
    /\ pnl_call = Unbound /\ pnl_put = Unbound /\ heatmap_data = Unbound
    /\ exc = ""
    /\ call = NoCall

CallBlackScholes ==
    /\ call.fn = "none"
    /\ \E s \in SpotSet, k \in SpotSet, t \in NumSet, rate \in NumSet, sig \in NumSet,
       ot \in OptionTypes :
        /\ call' = [fn |-> "black_scholes",
                    args |-> [S |-> s, K |-> k, T |-> t, r |-> rate, sigma |-> sig,
                              option_type |-> ot],
                    ret |-> black_scholes(s, k, t, rate, sig, ot)]
        /\ UNCHANGED scriptVars

CallGreeks ==
    /\ call.fn = "none"
    /\ \E s \in SpotSet, k \in SpotSet, t \in NumSet, rate \in NumSet, sig \in NumSet,
       c \in CdfValues :
        /\ call' = [fn |-> "calculate_greeks",
                    args |-> [S |-> s, K |-> k, T |-> t, r |-> rate, sigma |-> sig,
                              cdf_d1 |-> c],
                    ret |-> calculate_greeks(s, k, t, rate, sig, c)]
        /\ UNCHANGED scriptVars

CallPnl ==
    /\ call.fn = "none"
    /\ \E prices \in SeqsUpTo(PnlValues, MaxLen), strike \in StrikeValues,
       premium \in PremiumValues :
        /\ call' = [fn |-> "calculate_pnl",
                    args |-> [stock_prices |-> prices, strike_price |-> strike,
                              premium |-> premium],
                    ret |-> calculate_pnl(prices, strike, premium)]
        /\ UNCHANGED scriptVars

DropResult ==
    /\ pc = "harness"
    /\ call.fn # "none"
    /\ call' = NoCall
    /\ UNCHANGED scriptVars

CoreNext == CallBlackScholes \/ CallGreeks \/ CallPnl \/ DropResult

CoreSpec == CoreInit /\ [][CoreNext]_vars

----------------------------------------------------------------------------
(* The script, lines 38-181: one top-to-bottom run per widget change.      *)
(* Rendering calls (st.markdown, go.Figure, st.plotly_chart) change none   *)
(* of the names below and are passed over.                                 *)

\* np.linspace(start, stop, num), endpoint included: step = (stop - start) / (num - 1),
\* y = arange(0, num) * step + start (y / div * delta when step is 0), y[-1] = stop
Linspace(start, stop, num) ==
    LET div   == (num - 1) * One
        delta == FSub(stop, start)
        step  == FDiv(delta, div)
    IN  [i \in 1..num |->
            IF i = num THEN stop
            ELSE IF step # 0 THEN FAdd(FMul((i - 1) * One, step), start)
            ELSE FAdd(FMul(FDiv((i - 1) * One, div), delta), start)]

\* lines 45-49: the widgets hand the script the five current values
Init ==
    /\ pc = "line52"
    /\ S \in SpotSet /\ K \in SpotSet
    /\ T \in NumSet /\ r \in NumSet /\ sigma \in NumSet
    /\ call_price = Unbound /\ put_price = Unbound /\ greeks = Unbound
    /\ premium_input = Unbound /\ stock_prices = Unbound
    /\ pnl_call = Unbound /\ pnl_put = Unbound /\ heatmap_data = Unbound
    /\ exc = ""
    /\ call = NoCall

\* line 52
Guard52 ==
    /\ pc = "line52"
    /\ pc' = IF S > 0 /\ K > 0 /\ T > 0 /\ r >= 0 /\ sigma >= 0 THEN "line53" ELSE "line137"
    /\ UNCHANGED <<S, K, T, r, sigma, call_price, put_price, greeks, premium_input,
                   stock_prices, pnl_call, pnl_put, heatmap_data, exc, call>>

\* line 53
Call53 ==
    /\ pc = "line53"
    /\ LET ret == black_scholes(S, K, T, r, sigma, "call")
       IN  /\ call' = [fn |-> "black_scholes",
                       args |-> [S |-> S, K |-> K, T |-> T, r |-> r, sigma |-> sigma,
                                 option_type |-> "call"],
                       ret |-> ret]
           /\ IF ret.kind = "raise"
              THEN /\ pc' = "error" /\ exc' = ret.exc
                   /\ UNCHANGED call_price
              ELSE /\ pc' = "line54" /\ call_price' = Bound(ret.value.option_price)
                   /\ UNCHANGED exc
    /\ UNCHANGED <<S, K, T, r, sigma, put_price, greeks, premium_input,
                   stock_prices, pnl_call, pnl_put, heatmap_data>>

\* line 54
Put54 ==
    /\ pc = "line54"
    /\ LET ret == black_scholes(S, K, T, r, sigma, "put")
       IN  /\ call' = [fn |-> "black_scholes",
                       args |-> [S |-> S, K |-> K, T |-> T, r |-> r, sigma |-> sigma,
                                 option_type |-> "put"],
                       ret |-> ret]
           /\ IF ret.kind = "raise"
              THEN /\ pc' = "error" /\ exc' = ret.exc
                   /\ UNCHANGED put_price
              ELSE /\ pc' = "line95" /\ put_price' = Bound(ret.value.option_price)
                   /\ UNCHANGED exc
    /\ UNCHANGED <<S, K, T, r, sigma, call_price, greeks, premium_input,
                   stock_prices, pnl_call, pnl_put, heatmap_data>>

\* line 95
Greeks95 ==
    /\ pc = "line95"
    /\ \E c \in CdfValues :
         LET ret == calculate_greeks(S, K, T, r, sigma, c)
         IN  /\ call' = [fn |-> "calculate_greeks",
                         args |-> [S |-> S, K |-> K, T |-> T, r |-> r, sigma |-> sigma,
                                   cdf_d1 |-> c],
                         ret |-> ret]
             /\ IF ret.kind = "raise"
                THEN /\ pc' = "error" /\ exc' = ret.exc
                     /\ UNCHANGED greeks
                ELSE /\ pc' = "line137" /\ greeks' = Bound(ret.value)
                     /\ UNCHANGED exc
    /\ UNCHANGED <<S, K, T, r, sigma, call_price, put_price, premium_input,
                   stock_prices, pnl_call, pnl_put, heatmap_data>>

\* line 137: value=call_price is read first; the widget then returns the
\* number it holds (the default, or what the user typed)
Premium137 ==
    /\ pc = "line137"
    /\ IF call_price = Unbound
       THEN /\ pc' = "error" /\ exc' = "NameError"
            /\ UNCHANGED premium_input
       ELSE /\ \E p \in PremiumValues : premium_input' = Bound(p)
            /\ pc' = "line140"
            /\ UNCHANGED exc
    /\ UNCHANGED <<S, K, T, r, sigma, call_price, put_price, greeks,
                   stock_prices, pnl_call, pnl_put, heatmap_data, call>>

\* line 140
Linspace140 ==
    /\ pc = "line140"
    /\ stock_prices' = Bound(Linspace(FMul(S, One \div 2), FMul(S, One + One \div 2),
                                      GridSize))
    /\ pc' = "line143"
    /\ UNCHANGED <<S, K, T, r, sigma, call_price, put_price, greeks, premium_input,
                   pnl_call, pnl_put, heatmap_data, exc, call>>

\* line 143
Pnl143 ==
    /\ pc = "line143"
    /\ LET ret == calculate_pnl(ValueOf(stock_prices), K, ValueOf(premium_input))
       IN  /\ call' = [fn |-> "calculate_pnl",
                       args |-> [stock_prices |-> ValueOf(stock_prices),
                                 strike_price |-> K,
                                 premium |-> ValueOf(premium_input)],
                       ret |-> ret]
           /\ stock_prices' = Bound(ret.stock_prices)
           /\ pnl_call' = Bound(ret.value.pnl_call)
           /\ pnl_put' = Bound(ret.value.pnl_put)
    /\ pc' = "line146"
    /\ UNCHANGED <<S, K, T, r, sigma, call_price, put_price, greeks, premium_input,
                   heatmap_data, exc>>

\* line 146: np.vstack stacks the two legs as rows
Heatmap146 ==
    /\ pc = "line146"
    /\ heatmap_data' = Bound(<<ValueOf(pnl_call), ValueOf(pnl_put)>>)
    /\ pc' = "done"
    /\ UNCHANGED <<S, K, T, r, sigma, call_price, put_price, greeks, premium_input,
                   stock_prices, pnl_call, pnl_put, exc, call>>

\* a widget changes: Streamlit runs the script again from the top in a fresh
\* namespace, with the widgets' new values
Rerun ==
    /\ pc \in {"done", "error"}
    /\ pc' = "line52"
    /\ S' \in SpotSet /\ K' \in SpotSet
    /\ T' \in NumSet /\ r' \in NumSet /\ sigma' \in NumSet
    /\ call_price' = Unbound /\ put_price' = Unbound /\ greeks' = Unbound
    /\ premium_input' = Unbound /\ stock_prices' = Unbound
    /\ pnl_call' = Unbound /\ pnl_put' = Unbound /\ heatmap_data' = Unbound
    /\ exc' = ""
    /\ call' = NoCall

Next ==
    \/ Guard52 \/ Call53 \/ Put54 \/ Greeks95 \/ Premium137
    \/ Linspace140 \/ Pnl143 \/ Heatmap146 \/ Rerun

Spec == Init /\ [][Next]_vars

----------------------------------------------------------------------------
(* Vocabulary of the claims *)

ValidParams(a) == a.S > 0 /\ a.K > 0 /\ a.T > 0 /\ a.r >= 0 /\ a.sigma > 0
InvalidParams(a) == a.K <= 0 \/ a.S <= 0 \/ a.T <= 0 \/ a.sigma <= 0

\* The spec's two error outcomes.  The source defines no exception of its own
\* and has no raise statement.  For InvalidInput the arithmetic errors that
\* line 9 raises on a non-positive number are granted as well.  An
\* InvalidOptionKind error would be one raised for the option_type; the
\* UnboundLocalError of line 17 names a local variable of the function.
InvalidInput == {"InvalidInput", "ValueError", "ZeroDivisionError"}
InvalidOptionKind == "InvalidOptionKind"

PricingCall == call.fn \in {"black_scholes", "calculate_greeks"}

NonDecreasing(a) == \A i \in 1..Len(a) - 1 : a[i] <= a[i + 1]
NonIncreasing(a) == \A i \in 1..Len(a) - 1 : a[i] >= a[i + 1]

----------------------------------------------------------------------------
(* Claims about the core functions, checked under CoreSpec *)

\* C1: every call of black_scholes or calculate_greeks with K <= 0, S <= 0,
\* T <= 0 or sigma <= 0 fails with an InvalidInput error and returns nothing.
C1_InvalidInputFails ==
    (PricingCall /\ InvalidParams(call.args))
        => (call.ret.kind = "raise" /\ call.ret.exc \in InvalidInput)

\* a call with sigma < 0 and otherwise valid arguments that returned a value
C1_NegativeSigmaReturns ==
    /\ PricingCall
    /\ call.args.S > 0 /\ call.args.K > 0 /\ call.args.T > 0 /\ call.args.sigma < 0
    /\ call.ret.kind = "return"

\* C2: every call of black_scholes with valid numeric parameters and an
\* option_type other than 'call' and 'put' fails with the InvalidOptionKind
\* error and returns no (price, d1, d2).
C2_InvalidKindFails ==
    (/\ call.fn = "black_scholes"
     /\ ValidParams(call.args)
     /\ call.args.option_type \notin {"call", "put"})
        => (/\ call.ret.kind = "raise"
            /\ call.ret.exc = InvalidOptionKind
            /\ call.ret.value = <<>>)

\* a call with valid numbers and an unrecognised option_type that ended in the
\* unbound local of line 17
C2_InvalidKindUnboundLocal ==
    /\ call.fn = "black_scholes"
    /\ ValidParams(call.args)
    /\ call.args.option_type = "straddle"
    /\ call.ret.kind = "raise"
    /\ call.ret.exc = "UnboundLocalError"

\* C5: for valid parameters calculate_greeks returns, and the float difference
\* delta_call - delta_put of the returned values is exactly 1.
C5_DeltaDifferenceIsOne ==
    (call.fn = "calculate_greeks" /\ ValidParams(call.args))
        => (/\ call.ret.kind = "return"
            /\ FSub(call.ret.value.delta_call, call.ret.value.delta_put) = One)

\* a returned delta_put that float subtraction had to round
C5_RoundedDelta ==
    /\ call.fn = "calculate_greeks"
    /\ ValidParams(call.args)
    /\ call.ret.kind = "return"
    /\ call.ret.value.delta_put # call.ret.value.delta_call - One

\* C6: at every grid point equal to the strike, pnl_call and pnl_put are both
\* -premium.
C6_AtStrikeMinusPremium ==
    call.fn = "calculate_pnl"
        => \A i \in 1..Len(call.args.stock_prices) :
               call.args.stock_prices[i] = call.args.strike_price
                   => /\ call.ret.value.pnl_call[i] = 0 - call.args.premium
                      /\ call.ret.value.pnl_put[i] = 0 - call.args.premium

C6_GridPointAtStrike ==
    /\ call.fn = "calculate_pnl"
    /\ call.args.premium > 0
    /\ Len(call.args.stock_prices) = 2
    /\ call.args.stock_prices[2] = call.args.strike_price
    /\ call.ret.value.pnl_call[2] = 0 - call.args.premium

\* C7: for an ascending price sequence pnl_call is non-decreasing and pnl_put
\* is non-increasing.
C7_Monotone ==
    (call.fn = "calculate_pnl" /\ NonDecreasing(call.args.stock_prices))
        => /\ NonDecreasing(call.ret.value.pnl_call)
           /\ NonIncreasing(call.ret.value.pnl_put)

\* a strictly ascending sequence across the strike, both legs changing
C7_AscendingAcrossStrike ==
    /\ call.fn = "calculate_pnl"
    /\ Len(call.args.stock_prices) = 3
    /\ call.args.stock_prices[1] < call.args.strike_price
    /\ call.args.stock_prices[1] < call.args.stock_prices[2]
    /\ call.args.stock_prices[2] < call.args.stock_prices[3]
    /\ call.args.strike_price < call.args.stock_prices[3]
    /\ call.ret.value.pnl_call[1] < call.ret.value.pnl_call[3]
    /\ call.ret.value.pnl_put[1] > call.ret.value.pnl_put[3]

\* C8: pnl_call and pnl_put have the length of the input, and their i-th
\* elements are max(0, s_i - strike) - premium and max(0, strike - s_i) - premium.
C8_LengthAndOrder ==
    call.fn = "calculate_pnl"
        => LET prices == call.args.stock_prices
               strike == call.args.strike_price
               premium == call.args.premium
               res == call.ret.value
           IN  /\ call.ret.kind = "return"
               /\ Len(res.pnl_call) = Len(prices)
               /\ Len(res.pnl_put) = Len(prices)
               /\ \A i \in 1..Len(prices) :
                      /\ res.pnl_call[i] = FSub(FMax(0, FSub(prices[i], strike)), premium)
                      /\ res.pnl_put[i] = FSub(FMax(0, FSub(strike, prices[i])), premium)

\* a descending input of full length whose two legs differ in every place
C8_UnsortedInput ==
    /\ call.fn = "calculate_pnl"
    /\ Len(call.args.stock_prices) = MaxLen
    /\ call.args.stock_prices[1] > call.args.stock_prices[2]
    /\ Len(call.ret.value.pnl_call) = MaxLen
    /\ call.ret.value.pnl_call[1] > call.ret.value.pnl_call[2]

----------------------------------------------------------------------------
(* Claims about the script run, checked under Spec *)

\* C3: the script calls black_scholes and calculate_greeks only with S > 0,
\* K > 0, T > 0, r >= 0 and sigma > 0, so no such call fails.
C3_ScriptCallsInDomain ==
    PricingCall => (ValidParams(call.args) /\ call.ret.kind = "return")

\* the frame of a step that calls a core function
CallStepFrame ==
    pc \in {"line53", "line54", "line95", "line143"}
        => /\ S' = S /\ K' = K /\ T' = T /\ r' = r /\ sigma' = sigma
           /\ premium_input' = premium_input
           /\ stock_prices' = stock_prices
           /\ heatmap_data' = heatmap_data
           /\ pc = "line143"
                => /\ call'.ret.stock_prices = call'.args.stock_prices
                   /\ call'.args.strike_price = K'
                   /\ call'.args.premium = ValueOf(premium_input')

C10_CallPriceAssigned ==
    /\ pc = "line137" => call_price # Unbound
    /\ exc # "NameError"

====
